---- MODULE Spec2Model ----
(***************************************************************************)
(* A model of PeezyAgent's core: the RFPProposal and AnalysisResult data   *)
(* models (src/core/models.py) and the Config loader with its file-size    *)
(* parser (src/core/config.py).                                            *)
(*                                                                         *)
(* Python values are records [t, v]: t is the Python type, v the payload.  *)
(* A str is a sequence of one-character strings, so that substring,        *)
(* suffix, case and strip operations are computed, not assumed.  Numbers   *)
(* (int or float) are kept in hundredths: 85.5 is 8550.  Objects are       *)
(* functions from attribute names to values.                               *)
(***************************************************************************)
EXTENDS Integers, Sequences, FiniteSets, TLC

VARIABLES
    pIn,        \* the mapping handed to RFPProposal(**kw) / RFPProposal.from_dict
    proposal,   \* the RFPProposal instance the caller holds, or NoObject
    pErr,       \* the exception the last RFPProposal operation raised, or NoError
    pOp,        \* the last RFPProposal operation
    pWrites,    \* attribute assignments attempted on the instance so far
    aIn,        \* the mapping handed to AnalysisResult(**kw) / AnalysisResult.from_dict
    analysis,   \* the AnalysisResult instance the caller holds, or NoObject
    aErr,       \* the exception the last AnalysisResult operation raised, or NoError
    aOp,        \* the last AnalysisResult operation
    aWrites,    \* attribute assignments and container updates attempted so far
    aHeld,      \* the container fields whose object the caller can reach as well
    aFinal,     \* the instance as __post_init__ left it, or NoObject
    sizeStr,    \* the argument of the file-size functions
    sizeOut,    \* what the last file-size call returned or raised
    env,        \* os.environ: the variables set, each with its value
    dotenv,     \* load_dotenv argument and what the .env machinery finds
    config,     \* the Config instance: under construction, then returned; or NoObject
    cPc,        \* the statement of Config.__init__ to run next, "done" or "failed"
    cErr,       \* the exception the last Config operation raised, or NoError
    cOp,        \* the last operation of the caller on the returned Config
    cWrites,    \* attribute assignments attempted on the returned Config
    secretCache,\* the lru_cache of _generate_secret_key: its one entry, or none
    draws,      \* calls of secrets.token_hex made for this instance so far
    cSteps,     \* the calls Config.__init__ has made so far, in order
    generated,  \* what _generate_secret_key has returned to this instance, in order
    cLog        \* the records this instance has handed to its logger, in order

pvars == <<pIn, proposal, pErr, pOp, pWrites>>
avars == <<aIn, analysis, aErr, aOp, aWrites, aHeld, aFinal>>
svars == <<sizeStr, sizeOut>>
cvars == <<env, dotenv, config, cPc, cErr, cOp, cWrites, secretCache, draws,
           cSteps, generated, cLog>>
vars == <<pvars, avars, svars, cvars>>

-----------------------------------------------------------------------------
(* Python values *)

None == [t |-> "None", v |-> 0]
Str(s) == [t |-> "str", v |-> s]
\* 'x' * n: a str known by its length only (the content payload)
XStr(n) == [t |-> "xstr", v |-> n]
PyInt(n) == [t |-> "int", v |-> n]
\* an int or float, in hundredths
Num(h) == [t |-> "num", v |-> h]
NaN == [t |-> "nan", v |-> 0]
\* a dict: its entries [k |-> key, x |-> value] in insertion order
Dict(entries) == [t |-> "dict", v |-> entries]
List(items) == [t |-> "list", v |-> items]
Bool(b) == [t |-> "bool", v |-> b]
DateTime(d) == [t |-> "datetime", v |-> d]

NoObject == [t |-> "NoObject", v |-> 0]
NoError == [type |-> "", msg |-> ""]
Raise(type, msg) == [type |-> type, msg |-> msg]
NoOp == [name |-> "none"]
\* the component takes no part in the run
Idle == [name |-> "idle"]
\* an object without attributes; an empty mapping
Empty == [k \in {} |-> None]

IsStr(x) == x.t \in {"str", "xstr"}
\* isinstance(x, (int, float))
IsNumber(x) == x.t \in {"num", "nan", "int"}

\* bool(x)
Truthy(x) ==
    CASE x.t = "None" -> FALSE
      [] x.t = "str" -> Len(x.v) > 0
      [] x.t = "xstr" -> x.v > 0
      [] x.t = "int" -> x.v # 0
      [] x.t = "num" -> x.v # 0
      [] x.t = "dict" -> Len(x.v) > 0
      [] x.t = "list" -> Len(x.v) > 0
      [] x.t = "bool" -> x.v
      [] OTHER -> TRUE

\* len(x) of a str
StrLen(x) == IF x.t = "xstr" THEN x.v ELSE Len(x.v)

\* lo <= x <= hi for a number x (hundredths); every comparison with NaN is False
InRange(x, lo, hi) ==
    CASE x.t = "nan" -> FALSE
      [] x.t = "int" -> lo <= x.v * 100 /\ x.v * 100 <= hi
      [] OTHER -> lo <= x.v /\ x.v <= hi

-----------------------------------------------------------------------------
(* str operations on character sequences *)

UpperCase == <<"A","B","C","D","E","F","G","H","I","J","K","L","M",
               "N","O","P","Q","R","S","T","U","V","W","X","Y","Z">>
LowerCase == <<"a","b","c","d","e","f","g","h","i","j","k","l","m",
               "n","o","p","q","r","s","t","u","v","w","x","y","z">>
Digits == {"0","1","2","3","4","5","6","7","8","9"}
WhiteSpace == {" ", "\n", "\t"}

IndexIn(c, table) == CHOOSE i \in 1..Len(table) : table[i] = c
InTable(c, table) == \E i \in 1..Len(table) : table[i] = c

LowerChar(c) == IF InTable(c, UpperCase) THEN LowerCase[IndexIn(c, UpperCase)] ELSE c
UpperChar(c) == IF InTable(c, LowerCase) THEN UpperCase[IndexIn(c, LowerCase)] ELSE c

\* s.lower(), s.upper()
Lower(s) == [i \in 1..Len(s) |-> LowerChar(s[i])]
Upper(s) == [i \in 1..Len(s) |-> UpperChar(s[i])]

\* sub in s
Contains(s, sub) ==
    \E i \in 1..(Len(s) - Len(sub) + 1) : SubSeq(s, i, i + Len(sub) - 1) = sub

\* s.endswith(suf), s.startswith(pre)
EndsWith(s, suf) ==
    /\ Len(s) >= Len(suf)
    /\ SubSeq(s, Len(s) - Len(suf) + 1, Len(s)) = suf
StartsWith(s, pre) ==
    /\ Len(s) >= Len(pre)
    /\ SubSeq(s, 1, Len(pre)) = pre

\* s.strip()
Strip(s) ==
    LET keep == {i \in 1..Len(s) : s[i] \notin WhiteSpace}
    IN  IF keep = {} THEN <<>>
        ELSE LET lo == CHOOSE i \in keep : \A j \in keep : i <= j
                 hi == CHOOSE i \in keep : \A j \in keep : i >= j
             IN  SubSeq(s, lo, hi)

-----------------------------------------------------------------------------
(* RFPProposal *)

MaxContentLength == 10000000

ProposalFields ==
    {"id", "filename", "content", "extracted_data", "analysis_score", "created_at"}

\* The dataclass defaults; created_at's default factory reads the clock.
ProposalDefault(f, now) ==
    CASE f = "id" -> None
      [] f = "filename" -> None
      [] f = "content" -> None
      [] f = "extracted_data" -> Dict(<<>>)
      [] f = "analysis_score" -> None
      [] f = "created_at" -> now

\* The generated __init__: each field from the keyword argument or its default.
ProposalInit(kw, now) ==
    [f \in ProposalFields |-> IF f \in DOMAIN kw THEN kw[f] ELSE ProposalDefault(f, now)]

MVE(msg) == Raise("ModelValidationError", msg)

\* '../' in self.filename or '\\' in self.filename
IsPathTraversal(name) ==
    Contains(name, <<".", ".", "/">>) \/ Contains(name, <<"\\">>)

\* self.filename.lower().endswith('.pdf')
IsPdf(name) == EndsWith(Lower(name), <<".", "p", "d", "f">>)

\* Fault seeded for C5: the limit itself is refused
ContentTooLargeOffByOne(content) == StrLen(content) >= MaxContentLength

\* len(self.content) > max_content_length
ContentTooLarge(content) == StrLen(content) > MaxContentLength

\* "Check required fields": id, filename, content must be truthy
ProposalCheckRequired(self) ==
    IF ~Truthy(self["id"]) THEN MVE("Missing required field: id")
    ELSE IF ~Truthy(self["filename"]) THEN MVE("Missing required field: filename")
    ELSE IF ~Truthy(self["content"]) THEN MVE("Missing required field: content")
    ELSE NoError

\* "Check field types": id, filename, content must be str
ProposalCheckTypes(self) ==
    IF ~IsStr(self["id"]) THEN MVE("Field 'id' must be a string")
    ELSE IF ~IsStr(self["filename"]) THEN MVE("Field 'filename' must be a string")
    ELSE IF ~IsStr(self["content"]) THEN MVE("Field 'content' must be a string")
    ELSE NoError

\* Fault seeded for C6: the extension is checked before path traversal
ProposalCheckSecurityExtensionFirst(self) ==
    IF ~IsPdf(self["filename"].v) THEN MVE("Only PDF files are supported")
    ELSE IF IsPathTraversal(self["filename"].v)
        THEN MVE("Invalid filename format - path traversal not allowed")
    ELSE IF ContentTooLarge(self["content"])
        THEN MVE("Content too large - maximum 10,000,000 characters allowed")
    ELSE NoError

\* "Security Enhancement" 1 to 3: path traversal, extension, content length
ProposalCheckSecurity(self) ==
    IF IsPathTraversal(self["filename"].v)
        THEN MVE("Invalid filename format - path traversal not allowed")
    ELSE IF ~IsPdf(self["filename"].v) THEN MVE("Only PDF files are supported")
    ELSE IF ContentTooLarge(self["content"])
        THEN MVE("Content too large - maximum 10,000,000 characters allowed")
    ELSE NoError

\* "Validate optional fields if provided": analysis_score
ProposalCheckScore(self) ==
    IF self["analysis_score"] = None THEN NoError
    ELSE IF ~IsNumber(self["analysis_score"])
        THEN MVE("Field 'analysis_score' must be a number")
    ELSE IF ~InRange(self["analysis_score"], 0, 10000)
        THEN MVE("Analysis score must be between 0 and 100")
    ELSE NoError

\* RFPProposal._validate: the error of the first failing check, or NoError.
ProposalValidate(self) ==
    LET required == ProposalCheckRequired(self)
        types == ProposalCheckTypes(self)
        security == ProposalCheckSecurity(self)
    IN  IF required # NoError THEN required
        ELSE IF types # NoError THEN types
        ELSE IF security # NoError THEN security
        ELSE ProposalCheckScore(self)

-----------------------------------------------------------------------------
(* datetime: isoformat() and fromisoformat().  An ISO-8601 string is kept  *)
(* as its lexical parts: the date-time part, the optional microsecond      *)
(* part, the optional UTC offset ("+00:00", or "Z" as external producers   *)
(* write it).                                                              *)

DateParts == {"2024-01-15T10:30:00", "2025-06-01T00:00:00"}
MicroPart == ".000123"
UtcOffset == "+00:00"

\* naive and aware instants, with and without microseconds
DateTimes ==
    {DateTime([date |-> d, micro |-> m, utc |-> u]) :
        d \in DateParts, m \in BOOLEAN, u \in BOOLEAN}

\* datetime.isoformat(): microseconds are printed only when non-zero, the
\* offset only for an aware datetime
IsoFormat(dt) ==
    Str(<<dt.v.date>>
        \o (IF dt.v.micro THEN <<MicroPart>> ELSE <<>>)
        \o (IF dt.v.utc THEN <<UtcOffset>> ELSE <<>>))

\* s.replace('Z', '+00:00')
ReplaceZ(s) == [i \in 1..Len(s) |-> IF s[i] = "Z" THEN UtcOffset ELSE s[i]]

IsIsoString(s) ==
    /\ Len(s) >= 1
    /\ s[1] \in DateParts
    /\ \/ Len(s) = 1
       \/ Len(s) = 2 /\ s[2] \in {MicroPart, UtcOffset}
       \/ Len(s) = 3 /\ s[2] = MicroPart /\ s[3] = UtcOffset

\* datetime.fromisoformat(s), for s with IsIsoString(s); anything else raises
\* ValueError
FromIsoFormat(s) ==
    DateTime([date |-> s[1],
              micro |-> (Len(s) >= 2 /\ s[2] = MicroPart),
              utc |-> s[Len(s)] = UtcOffset])

-----------------------------------------------------------------------------
(* RFPProposal: construction, from_dict, attribute assignment *)

\* A failed call leaves the caller with the exception and no instance.
Outcome(obj, err) == [obj |-> IF err = NoError THEN obj ELSE NoObject, err |-> err]

\* RFPProposal(**kw): the generated __init__, then __post_init__
ProposalNew(kw, now) ==
    LET self == ProposalInit(kw, now)
    IN  Outcome(self, ProposalValidate(self))

\* from_dict's "Handle datetime field if present": a str created_at is
\* parsed, anything else is passed on as it is
ParseCreatedAt(data) ==
    IF "created_at" \in DOMAIN data /\ data["created_at"].t = "str"
    THEN [data EXCEPT !["created_at"] = FromIsoFormat(ReplaceZ(data["created_at"].v))]
    ELSE data

CreatedAtUnparsable(data) ==
    /\ "created_at" \in DOMAIN data
    /\ data["created_at"].t = "str"
    /\ ~IsIsoString(ReplaceZ(data["created_at"].v))

\* from_dict's "Filter only known fields"
FilterKnown(data, known) == [k \in DOMAIN data \cap known |-> data[k]]

\* Fault seeded for C13: from_dict takes created_at from the clock
ProposalFromDictClockStamped(data, now) ==
    ProposalNew(FilterKnown([k \in DOMAIN data \ {"created_at"} |-> data[k]],
                            ProposalFields), now)

\* RFPProposal.from_dict(data)
ProposalFromDictResult(data, now) ==
    IF CreatedAtUnparsable(data)
    THEN Outcome(NoObject, Raise("ValueError", "Invalid isoformat string"))
    ELSE ProposalNew(FilterKnown(ParseCreatedAt(data), ProposalFields), now)

\* RFPProposal.to_dict(): the six fields, created_at as its isoformat()
\* string; a created_at that is no datetime has no isoformat attribute
ProposalToDictResult(self) ==
    IF self["created_at"].t # "datetime"
    THEN [ret |-> Empty, err |-> Raise("AttributeError", "isoformat")]
    ELSE [ret |-> [k \in ProposalFields |->
                     IF k = "created_at" THEN IsoFormat(self[k]) ELSE self[k]],
          err |-> NoError]

\* Assigning an attribute of an RFPProposal: the dataclass is not frozen and
\* defines no __setattr__, so object.__setattr__ stores the value.
ProposalSetAttrResult(self, name, value) ==
    [obj |-> [a \in DOMAIN self \cup {name} |-> IF a = name THEN value ELSE self[a]],
     err |-> NoError]

(* Inputs *)

Absent == [t |-> "Absent", v |-> 0]

\* The mapping holding the keys of `choice` that are not Absent
MkDict(choice) ==
    [k \in {f \in DOMAIN choice : choice[f] # Absent} |-> choice[k]]

IdValues == {Absent, Str(<<>>), Str(<<"p", "1">>), PyInt(5)}

FileNames ==
    { <<"a", ".", "p", "d", "f">>,
      <<"A", ".", "P", "D", "F">>,
      <<".", "p", "d", "f">>,
      <<".", ".", "a", ".", "p", "d", "f">>,
      <<"a", ".", "d", "o", "c", "x">>,
      <<"a", ".", "p", "d", "f", ".", "x">>,
      <<".", ".", "/", "a", ".", "p", "d", "f">>,
      <<".", ".", "/", ".", ".", "/", "e", "t", "c", "/", "p", "a", "s", "s", "w", "d">>,
      <<"a", "\\", "b", ".", "p", "d", "f">>,
      <<"a", "\\", "b">>,
      <<"a", "/", "b", ".", "p", "d", "f">>,
      <<"/", "a", ".", "p", "d", "f">> }

FilenameValues == {Absent, Str(<<>>), PyInt(7)} \cup {Str(n) : n \in FileNames}

ContentValues ==
    {Absent, XStr(0), XStr(1), XStr(MaxContentLength), XStr(MaxContentLength + 1),
     PyInt(3)}

ScoreValues ==
    {Absent, None, Num(-1), Num(0), Num(8550), Num(10000), Num(10001), NaN,
     Str(<<"8", "5">>)}

CreatedAtValues ==
    {Absent,
     DateTime([date |-> "2024-01-15T10:30:00", micro |-> TRUE, utc |-> FALSE]),
     Str(<<"2024-01-15T10:30:00", "Z">>),
     Str(<<"b", "a", "d">>)}

ProposalInputs ==
    {MkDict(c) : c \in
        [id : IdValues, filename : FilenameValues, content : ContentValues,
         analysis_score : ScoreValues,
         extracted_data : {Absent, Dict(<<[k |-> "vendor", x |-> Str(<<"a">>)]>>)},
         created_at : CreatedAtValues,
         unknown_field : {Absent, Str(<<"x">>)}]}

\* what datetime.now() may return at construction
Clock == {DateTime([date |-> "2025-06-01T00:00:00", micro |-> TRUE, utc |-> FALSE])}

MaxWrites == 1

\* the values a caller tries to assign
AssignedValues == {None, Str(<<"z">>), Num(20000)}

\* RFPProposal(**pIn)
ProposalConstruct ==
    /\ pOp = NoOp
    /\ DOMAIN pIn \subseteq ProposalFields
    /\ \E now \in Clock :
        LET r == ProposalNew(pIn, now)
        IN  /\ proposal' = r.obj
            /\ pErr' = r.err
    /\ pOp' = [name |-> "construct"]
    /\ UNCHANGED <<pIn, pWrites, avars, svars, cvars>>

\* RFPProposal.from_dict(pIn)
ProposalFromDict ==
    /\ pOp = NoOp
    /\ \E now \in Clock :
        LET r == ProposalFromDictResult(pIn, now)
        IN  /\ proposal' = r.obj
            /\ pErr' = r.err
    /\ pOp' = [name |-> "from_dict"]
    /\ UNCHANGED <<pIn, pWrites, avars, svars, cvars>>

\* proposal.<name> = value, on the instance a successful call returned
ProposalSetAttr ==
    /\ proposal # NoObject
    /\ pWrites < MaxWrites
    /\ \E name \in ProposalFields \cup {"new_attribute"}, value \in AssignedValues :
        LET r == ProposalSetAttrResult(proposal, name, value)
        IN  /\ proposal' = r.obj
            /\ pErr' = r.err
            /\ pOp' = [name |-> "setattr", attr |-> name, value |-> value,
                       before |-> proposal]
    /\ pWrites' = pWrites + 1
    /\ UNCHANGED <<pIn, avars, svars, cvars>>

\* entries a caller adds to a serialized record: none of the keys is a field
ExtraEntries ==
    {Empty,
     [unknown_field |-> Str(<<"x">>), created |-> Str(<<"b", "a", "d">>)]}

\* proposal.to_dict()
ProposalToDict ==
    /\ proposal # NoObject
    /\ pOp.name \notin {"to_dict", "round_trip"}
    /\ LET r == ProposalToDictResult(proposal)
       IN  /\ pOp' = [name |-> "to_dict", ret |-> r.ret]
           /\ pErr' = r.err
    /\ UNCHANGED <<pIn, proposal, pWrites, avars, svars, cvars>>

\* RFPProposal.from_dict({**d, **extra}) for the d that to_dict returned
ProposalFromDictOfToDict ==
    /\ pOp.name = "to_dict"
    /\ pErr = NoError
    /\ \E now \in Clock, extra \in ExtraEntries :
        LET data == [k \in DOMAIN pOp.ret \cup DOMAIN extra |->
                        IF k \in DOMAIN extra THEN extra[k] ELSE pOp.ret[k]]
            r == ProposalFromDictResult(data, now)
        IN  /\ pOp' = [name |-> "round_trip", extra |-> extra, ret |-> r.obj]
            /\ pErr' = r.err
    /\ UNCHANGED <<pIn, proposal, pWrites, avars, svars, cvars>>

-----------------------------------------------------------------------------
(* AnalysisResult *)

AnalysisFields ==
    {"proposal_id", "criteria_scores", "overall_score", "strengths", "concerns",
     "recommendation_rank", "created_at"}
AnalysisRequired == {"proposal_id", "criteria_scores"}

\* DEFAULT_CRITERIA_WEIGHTS, in hundredths
DefaultCriteriaWeights ==
    [price |-> 30, technical_approach |-> 25, experience |-> 20, timeline |-> 15,
     risk |-> 10]

AnalysisDefault(f, now) ==
    CASE f = "overall_score" -> None
      [] f = "strengths" -> List(<<>>)
      [] f = "concerns" -> List(<<>>)
      [] f = "recommendation_rank" -> None
      [] f = "created_at" -> now

\* The generated __init__: the fields from the arguments or their defaults,
\* and _frozen (init=False) from its default.
AnalysisInit(kw, now) ==
    [f \in AnalysisFields \cup {"_frozen"} |->
        IF f = "_frozen" THEN Bool(FALSE)
        ELSE IF f \in DOMAIN kw THEN kw[f]
        ELSE AnalysisDefault(f, now)]

ImmutableError == MVE("AnalysisResult is immutable after creation")

\* Fault seeded for C2: the guard lets the frozen flag itself be written
AnalysisSetAttrFlagWritable(self, name, value) ==
    IF "_frozen" \in DOMAIN self /\ Truthy(self["_frozen"]) /\ name # "_frozen"
    THEN [obj |-> self, err |-> ImmutableError]
    ELSE [obj |-> [a \in DOMAIN self \cup {name} |-> IF a = name THEN value ELSE self[a]],
          err |-> NoError]

\* AnalysisResult.__setattr__(self, name, value)
AnalysisSetAttrResult(self, name, value) ==
    IF "_frozen" \in DOMAIN self /\ Truthy(self["_frozen"])
    THEN [obj |-> self, err |-> ImmutableError]
    ELSE [obj |-> [a \in DOMAIN self \cup {name} |-> IF a = name THEN value ELSE self[a]],
          err |-> NoError]

\* 0 <= score <= 100 (hundredths)
ScoreInRange(x) == InRange(x, 0, 10000)

\* The loop "Validate criteria scores": the error of the first entry, in the
\* dict's order, that is no number or lies outside the range
CriteriaError(entries) ==
    LET bad == {i \in 1..Len(entries) :
                    ~IsNumber(entries[i].x) \/ ~ScoreInRange(entries[i].x)}
    IN  IF bad = {} THEN NoError
        ELSE LET i == CHOOSE j \in bad : \A k \in bad : j <= k
             IN  IF ~IsNumber(entries[i].x)
                 THEN MVE("Criteria score must be a number")
                 ELSE MVE("Score must be between 0 and 100")

\* AnalysisResult._validate
AnalysisValidate(self) ==
    IF ~Truthy(self["proposal_id"]) THEN MVE("Missing required field: proposal_id")
    ELSE IF ~Truthy(self["criteria_scores"])
        THEN MVE("Missing required field: criteria_scores")
    ELSE IF self["overall_score"] # None /\ ~IsNumber(self["overall_score"])
        THEN Raise("TypeError", "'<=' not supported")  \* 0 <= 'text'
    ELSE IF self["overall_score"] # None /\ ~ScoreInRange(self["overall_score"])
        THEN MVE("Score must be between 0 and 100")
    ELSE CriteriaError(self["criteria_scores"].v)

\* Fault seeded for C4: an unnamed criterion weighs 1.0 instead of 1/N
WeightFallbackOne(criterion, n) ==
    IF criterion \in DOMAIN DefaultCriteriaWeights
    THEN DefaultCriteriaWeights[criterion] * n
    ELSE 100 * n

\* Fault seeded for C20: an unnamed criterion gets no weight
WeightFallbackZero(criterion, n) ==
    IF criterion \in DOMAIN DefaultCriteriaWeights
    THEN DefaultCriteriaWeights[criterion] * n
    ELSE 0

\* DEFAULT_CRITERIA_WEIGHTS.get(criterion, 1.0 / len(criteria_scores)), as the
\* numerator of the weight over the denominator 100 * n: 0.30 is 30 * n, and
\* 1 / n is 100
Weight(criterion, n) ==
    IF criterion \in DOMAIN DefaultCriteriaWeights
    THEN DefaultCriteriaWeights[criterion] * n
    ELSE 100

\* The loop of _calculate_overall_score over the first i entries:
\* total_score and total_weight
RECURSIVE WeightedTotals(_, _)
WeightedTotals(entries, i) ==
    IF i = 0 THEN [score |-> 0, weight |-> 0]
    ELSE LET prev == WeightedTotals(entries, i - 1)
             w == Weight(entries[i].k, Len(entries))
         IN  [score |-> prev.score + entries[i].x.v * w,
              weight |-> prev.weight + w]

\* round(num / den, 2) for num in hundredths: the nearest hundredth.  The
\* quotient is a float, which at an exact half lies on either side of it, so
\* a half rounds to either neighbour.
RoundQuotient(num, den) ==
    LET q == num \div den
        r == num % den
    IN  IF 2 * r < den THEN {q}
        ELSE IF 2 * r > den THEN {q + 1}
        ELSE {q, q + 1}

\* AnalysisResult._calculate_overall_score: the values it may return
CalculateOverallScore(self) ==
    LET t == WeightedTotals(self["criteria_scores"].v, Len(self["criteria_scores"].v))
    IN  IF t.weight > 0 THEN {Num(h) : h \in RoundQuotient(t.score, t.weight)}
        ELSE {Num(0)}

\* Fault seeded for C8: "if not self.overall_score" in place of "is None"
OverallScoreFalsy(self) == ~Truthy(self["overall_score"])

\* self.overall_score is None
OverallScoreMissing(self) == self["overall_score"] = None

\* AnalysisResult.__post_init__ on a populated instance: the outcomes.
\* Validation, the score when none was given, then the freeze, which
\* bypasses __setattr__.
AnalysisPostInit(self) ==
    LET err == AnalysisValidate(self)
    IN  IF err # NoError THEN {Outcome(NoObject, err)}
        ELSE LET scored ==
                    IF OverallScoreMissing(self)
                    THEN {AnalysisSetAttrResult(self, "overall_score", s) :
                            s \in CalculateOverallScore(self)}
                    ELSE {[obj |-> self, err |-> NoError]}
             IN  {IF r.err # NoError THEN Outcome(NoObject, r.err)
                  ELSE Outcome([r.obj EXCEPT !["_frozen"] = Bool(TRUE)], NoError) : r \in scored}

\* AnalysisResult(**kw): a required argument left out is a TypeError of the
\* generated __init__
AnalysisNew(kw, now) ==
    IF ~(AnalysisRequired \subseteq DOMAIN kw)
    THEN {Outcome(NoObject, Raise("TypeError", "missing required positional argument"))}
    ELSE AnalysisPostInit(AnalysisInit(kw, now))

\* Fault seeded for C14: the serialized map leaves out overall_score
AnalysisToDictWithoutScore(self) ==
    IF self["created_at"].t # "datetime"
    THEN [ret |-> Empty, err |-> Raise("AttributeError", "isoformat")]
    ELSE [ret |-> [k \in AnalysisFields \ {"overall_score"} |->
                     IF k = "created_at" THEN IsoFormat(self[k]) ELSE self[k]],
          err |-> NoError]

\* AnalysisResult.to_dict(): the seven fields, created_at as its isoformat()
\* string; a created_at that is no datetime has no isoformat attribute
AnalysisToDictResult(self) ==
    IF self["created_at"].t # "datetime"
    THEN [ret |-> Empty, err |-> Raise("AttributeError", "isoformat")]
    ELSE [ret |-> [k \in AnalysisFields |->
                     IF k = "created_at" THEN IsoFormat(self[k]) ELSE self[k]],
          err |-> NoError]

\* the fields that hold a mutable container
Containers == {"criteria_scores", "strengths", "concerns"}

\* __init__ stores the arguments themselves, and from_dict's data.copy() is
\* shallow: a dict or list the caller passed is the one the instance holds
PassedContainers(kw) ==
    {f \in Containers \cap DOMAIN kw : kw[f].t \in {"dict", "list"}}

\* d[k] = v: the entry of an existing key is replaced where it stands, a new
\* key is added at the end
SetItem(entries, k, v) ==
    IF \E i \in DOMAIN entries : entries[i].k = k
    THEN [i \in DOMAIN entries |->
            IF entries[i].k = k THEN [k |-> k, x |-> v] ELSE entries[i]]
    ELSE Append(entries, [k |-> k, x |-> v])

\* in-place updates of a container: d[k] = v, d.clear(); l.append(v)
ContainerUpdates(x) ==
    CASE x.t = "dict" -> {Dict(SetItem(x.v, "late", Num(15000))), Dict(<<>>)}
      [] x.t = "list" -> {List(Append(x.v, "late"))}
      [] OTHER -> {}

\* AnalysisResult.from_dict(data)
AnalysisFromDictResult(data, now) ==
    IF CreatedAtUnparsable(data)
    THEN {Outcome(NoObject, Raise("ValueError", "Invalid isoformat string"))}
    ELSE AnalysisNew(FilterKnown(ParseCreatedAt(data), AnalysisFields), now)

(* Inputs *)

MaxCriteria == 2

CriterionNames ==
    <<"price", "technical_approach", "experience", "timeline", "risk",
      "custom_a", "custom_b">>

Entry(k, x) == [k |-> k, x |-> x]

\* criteria dicts of valid scores: up to MaxCriteria of the names, in the
\* order of CriterionNames
ScoredCriteria ==
    LET picks == {p \in SUBSET (1..Len(CriterionNames)) :
                    Cardinality(p) >= 1 /\ Cardinality(p) <= MaxCriteria}
        nth(p, i) == CHOOSE j \in p : Cardinality({m \in p : m < j}) = i - 1
    IN  UNION {
          {Dict([i \in 1..Cardinality(p) |-> Entry(CriterionNames[nth(p, i)], val[nth(p, i)])]) :
              val \in [p -> {Num(0), Num(1), Num(10000)}]} : p \in picks}

\* criteria dicts with scores that are out of range or no numbers, in both
\* insertion orders
UncheckedCriteria ==
    LET values == {Num(-1), Num(0), Num(3333), Num(10000), Num(10001), NaN, Str(<<"9">>)}
    IN  {Dict(<<Entry("price", x)>>) : x \in values}
        \cup {Dict(<<Entry("price", x), Entry("custom_a", y)>>) : x, y \in values}
        \cup {Dict(<<Entry("custom_a", x), Entry("price", y)>>) : x, y \in values}

FiveNamed ==
    Dict(<<Entry("price", Num(8000)), Entry("technical_approach", Num(9000)),
           Entry("experience", Num(8500)), Entry("timeline", Num(7500)),
           Entry("risk", Num(7000))>>)
TwoCustom == Dict(<<Entry("custom_a", Num(10000)), Entry("custom_b", Num(0))>>)

CriteriaValues ==
    {Absent, None, Dict(<<>>), FiveNamed, TwoCustom}
        \cup ScoredCriteria \cup UncheckedCriteria

\* the optional arguments, left out or given together
AnalysisExtras ==
    { [strengths |-> Absent, concerns |-> Absent, recommendation_rank |-> Absent,
       created_at |-> Absent, unknown_field |-> Absent],
      [strengths |-> List(<<"fast">>), concerns |-> List(<<"cost">>),
       recommendation_rank |-> PyInt(1),
       created_at |-> Str(<<"2024-01-15T10:30:00", MicroPart, "Z">>),
       unknown_field |-> Str(<<"x">>)] }

AnalysisInputs ==
    {MkDict([f \in {"proposal_id", "criteria_scores", "overall_score"} \cup DOMAIN e |->
                CASE f = "proposal_id" -> pid
                  [] f = "criteria_scores" -> cs
                  [] f = "overall_score" -> os
                  [] OTHER -> e[f]]) :
        pid \in {Absent, Str(<<>>), Str(<<"p", "1">>)},
        cs \in CriteriaValues,
        os \in {Absent, Num(-1), Num(0), Num(4200), Num(10000), Num(10001), NaN},
        e \in AnalysisExtras}

\* AnalysisResult(proposal_id, criteria_scores, ...): the two required
\* arguments given, the others as aIn has them
AnalysisConstruct ==
    /\ aOp = NoOp
    /\ AnalysisRequired \subseteq DOMAIN aIn
    /\ DOMAIN aIn \subseteq AnalysisFields
    /\ \E now \in Clock : \E r \in AnalysisNew(aIn, now) :
        /\ analysis' = r.obj
        /\ aFinal' = r.obj
        /\ aErr' = r.err
        /\ aHeld' = IF r.obj = NoObject THEN {} ELSE PassedContainers(aIn)
    /\ aOp' = [name |-> "construct"]
    /\ UNCHANGED <<aIn, aWrites, pvars, svars, cvars>>

\* AnalysisResult.from_dict(aIn)
AnalysisFromDict ==
    /\ aOp = NoOp
    /\ \E now \in Clock : \E r \in AnalysisFromDictResult(aIn, now) :
        /\ analysis' = r.obj
        /\ aFinal' = r.obj
        /\ aErr' = r.err
        /\ aHeld' = IF r.obj = NoObject THEN {} ELSE PassedContainers(aIn)
    /\ aOp' = [name |-> "from_dict"]
    /\ UNCHANGED <<aIn, aWrites, pvars, svars, cvars>>

\* analysis.<name> = value, on the instance a successful call returned
AnalysisSetAttr ==
    /\ analysis # NoObject
    /\ aWrites < MaxWrites
    /\ \E name \in AnalysisFields \cup {"_frozen", "new_attribute"},
          value \in {None, Bool(FALSE)} :
        LET r == AnalysisSetAttrResult(analysis, name, value)
        IN  /\ analysis' = r.obj
            /\ aErr' = r.err
            /\ aOp' = [name |-> "setattr", attr |-> name, value |-> value,
                       before |-> analysis]
    /\ aWrites' = aWrites + 1
    /\ UNCHANGED <<aIn, aHeld, aFinal, pvars, svars, cvars>>

\* analysis.to_dict(): the map it returns holds the instance's own
\* criteria_scores, strengths and concerns objects
AnalysisToDict ==
    /\ analysis # NoObject
    /\ aOp.name \notin {"to_dict", "round_trip"}
    /\ LET r == AnalysisToDictResult(analysis)
       IN  /\ aOp' = [name |-> "to_dict", ret |-> r.ret]
           /\ aErr' = r.err
           /\ aHeld' = IF r.err = NoError THEN Containers ELSE aHeld
    /\ UNCHANGED <<aIn, analysis, aWrites, aFinal, pvars, svars, cvars>>

\* AnalysisResult.from_dict(d) for the d that to_dict returned
AnalysisFromDictOfToDict ==
    /\ aOp.name = "to_dict"
    /\ aErr = NoError
    /\ \E now \in Clock : \E r \in AnalysisFromDictResult(aOp.ret, now) :
        /\ aOp' = [name |-> "round_trip", ret |-> r.obj]
        /\ aErr' = r.err
    /\ UNCHANGED <<aIn, analysis, aWrites, aHeld, aFinal, pvars, svars, cvars>>

\* The caller updates, in place, a dict or list it passed in or got back
\* from to_dict.  The instance refers to the same object, so the field reads
\* the update; no attribute is assigned and __setattr__ is not called.
CallerUpdate ==
    /\ analysis # NoObject
    /\ aWrites < MaxWrites
    /\ \E f \in aHeld : \E x \in ContainerUpdates(analysis[f]) :
        /\ analysis' = [analysis EXCEPT ![f] = x]
        /\ aOp' = [name |-> "update", field |-> f]
    /\ aErr' = NoError
    /\ aWrites' = aWrites + 1
    /\ UNCHANGED <<aIn, aHeld, aFinal, pvars, svars, cvars>>

-----------------------------------------------------------------------------
(* Config: the file-size functions.  A byte count can exceed the 32-bit    *)
(* integers of the model checker (1TB is 2^40), so it is kept as its       *)
(* digits in base 1024, most significant first, without leading zeros:     *)
(* 10MB is <<10, 0, 0>>.                                                   *)

CE(msg) == Raise("ConfigError", msg)

DigitChars == <<"0","1","2","3","4","5","6","7","8","9">>
IsDigit(c) == c \in Digits
DigitValue(c) == IndexIn(c, DigitChars) - 1

\* int(digits)
RECURSIVE DecimalValue(_)
DecimalValue(digits) ==
    IF digits = <<>> THEN 0
    ELSE 10 * DecimalValue(SubSeq(digits, 1, Len(digits) - 1))
            + DigitValue(digits[Len(digits)])

RECURSIVE Pow10(_)
Pow10(d) == IF d = 0 THEN 1 ELSE 10 * Pow10(d - 1)

\* a non-negative integer in base 1024
RECURSIVE ToLimbs(_)
ToLimbs(n) == IF n = 0 THEN <<>> ELSE Append(ToLimbs(n \div 1024), n % 1024)

RECURSIVE StripZeros(_)
StripZeros(limbs) ==
    IF limbs # <<>> /\ limbs[1] = 0 THEN StripZeros(Tail(limbs)) ELSE limbs

\* Fault seeded for C10: TB carries GB's multiplier
UnitExponentTbAsGb(unit) ==
    CASE unit = <<"B">> -> 0
      [] unit = <<"K", "B">> -> 1
      [] unit = <<"M", "B">> -> 2
      [] unit = <<"G", "B">> -> 3
      [] unit = <<"T", "B">> -> 3

\* FILE_SIZE_UNITS[unit] as a power of 1024
UnitExponent(unit) ==
    CASE unit = <<"B">> -> 0
      [] unit = <<"K", "B">> -> 1
      [] unit = <<"M", "B">> -> 2
      [] unit = <<"G", "B">> -> 3
      [] unit = <<"T", "B">> -> 4

\* The end of the run of digits of s that starts at i (i - 1 when s has no
\* digit there): the regular expression's \d+
RECURSIVE DigitRun(_, _)
DigitRun(s, i) == IF i <= Len(s) /\ IsDigit(s[i]) THEN DigitRun(s, i + 1) ELSE i - 1

\* re.match(r'(\d+(?:\.\d+)?)([KMGT]?B)', s): whether s starts with a match,
\* where its number ends and where its unit ends
MatchSize(s) ==
    LET int == DigitRun(s, 1)
        num == IF int + 2 <= Len(s) /\ s[int + 1] = "." /\ IsDigit(s[int + 2])
               THEN DigitRun(s, int + 2) ELSE int
        pre == IF num + 1 <= Len(s) /\ s[num + 1] \in {"K", "M", "G", "T"}
               THEN num + 1 ELSE num
    IN  [ok |-> int >= 1 /\ pre + 1 <= Len(s) /\ s[pre + 1] = "B",
         int |-> int, num |-> num, end |-> pre + 1]

\* The pattern's closing $ after position i: the end of s, or a newline that
\* ends s
AtDollar(s, i) == i = Len(s) \/ (i = Len(s) - 1 /\ s[Len(s)] = "\n")

\* Config._is_valid_file_size(size_str)
IsValidFileSize(size_str) ==
    LET s == Upper(size_str)
        m == MatchSize(s)
    IN  m.ok /\ AtDollar(s, m.end)

\* int(float(number) * 1024 ** e): number is k / 10^d for the integer k its
\* digits spell; the quotient is taken by long division, one base-1024
\* digit for each factor 1024
RECURSIVE LongDivision(_, _, _, _)
LongDivision(limbs, rest, den, e) ==
    IF e = 0 THEN limbs
    ELSE LongDivision(Append(limbs, (rest * 1024) \div den), (rest * 1024) % den,
                      den, e - 1)

TruncatedProduct(number, e) ==
    LET dot == {i \in 1..Len(number) : number[i] = "."}
        d == IF dot = {} THEN 0 ELSE Len(number) - (CHOOSE i \in dot : TRUE)
        k == DecimalValue(SelectSeq(number, IsDigit))
        den == Pow10(d)
    IN  StripZeros(LongDivision(ToLimbs(k \div den), k % den, den, e))

\* Config._parse_file_size_to_bytes(size_str): the value returned or the
\* error raised
ParseFileSizeToBytes(size_str) ==
    IF ~IsValidFileSize(size_str)
    THEN [ret |-> <<>>, err |-> CE("Invalid file size format")]
    ELSE LET s == Upper(size_str)
             m == MatchSize(s)
         IN  IF ~m.ok THEN [ret |-> <<>>, err |-> CE("Could not parse file size")]
             ELSE [ret |-> TruncatedProduct(SubSeq(s, 1, m.num),
                                            UnitExponent(SubSeq(s, m.num + 1, m.end))),
                   err |-> NoError]

(* Inputs *)

MaxDigits == 2
MaxCalls == 2

RECURSIVE SeqsUpTo(_, _)
SeqsUpTo(S, n) ==
    IF n = 0 THEN {<<>>}
    ELSE LET shorter == SeqsUpTo(S, n - 1)
         IN  shorter \cup {Append(q, c) : q \in shorter, c \in S}

\* size strings and near misses: what precedes the number, its integer
\* digits, its fraction, the unit prefix, the B, and what follows
SizeStrings ==
    {pre \o int \o frac \o unit \o b \o post :
        pre \in {<<>>, <<" ">>},
        int \in SeqsUpTo({"0", "1", "2"}, MaxDigits),
        frac \in {<<>>, <<".">>, <<".", "5">>, <<".", "2", "5">>, <<".", "0", "9">>},
        unit \in {<<>>, <<"K">>, <<"k">>, <<"M">>, <<"m">>, <<"G">>, <<"T">>, <<"t">>, <<"X">>},
        b \in {<<>>, <<"B">>, <<"b">>},
        post \in {<<>>, <<"\n">>, <<"x">>}}

\* config._is_valid_file_size(sizeStr)
IsValidCall ==
    /\ sizeOut.op # "idle"
    /\ sizeOut.n < MaxCalls
    /\ sizeOut' = [op |-> "is_valid", ret |-> IsValidFileSize(sizeStr),
                   err |-> NoError, n |-> sizeOut.n + 1]
    /\ UNCHANGED <<sizeStr, pvars, avars, cvars>>

\* config._parse_file_size_to_bytes(sizeStr)
ParseCall ==
    /\ sizeOut.op # "idle"
    /\ sizeOut.n < MaxCalls
    /\ LET r == ParseFileSizeToBytes(sizeStr)
       IN  sizeOut' = [op |-> "parse", ret |-> r.ret, err |-> r.err, n |-> sizeOut.n + 1]
    /\ UNCHANGED <<sizeStr, pvars, avars, cvars>>

-----------------------------------------------------------------------------
(* Config: loading from the environment *)

DefaultMaxFileSize == <<"1", "0", "M", "B">>
DefaultSupportedFileTypes == <<".", "p", "d", "f">>
SecretBytes == 32

\* a byte count, in base 1024
BigInt(limbs) == [t |-> "int1024", v |-> limbs]
Logger == [t |-> "logger", v |-> 0]

\* the ConfigError of __setattr__; the attribute name that ends the message
\* ("... Cannot modify {name}") is left out
FrozenError == CE("Configuration is frozen. Cannot modify")

\* Fault seeded for C3: the guard reads the flag's absence as frozen
ConfigSetAttrUnsetIsFrozen(self, name, value) ==
    IF "_frozen" \notin DOMAIN self \/ Truthy(self["_frozen"])
    THEN [obj |-> self, err |-> FrozenError]
    ELSE [obj |-> [a \in DOMAIN self \cup {name} |-> IF a = name THEN value ELSE self[a]],
          err |-> NoError]

\* Config.__setattr__(self, name, value)
ConfigSetAttrResult(self, name, value) ==
    IF "_frozen" \in DOMAIN self /\ Truthy(self["_frozen"])
    THEN [obj |-> self, err |-> FrozenError]
    ELSE [obj |-> [a \in DOMAIN self \cup {name} |-> IF a = name THEN value ELSE self[a]],
          err |-> NoError]

\* Fault seeded for C11: the value is not stripped before the emptiness test
GetRequiredEnvUnstripped(e, key) ==
    IF key \notin DOMAIN e
    THEN [ret |-> <<>>, err |-> CE("Missing required environment variable")]
    ELSE IF e[key] = <<>>
    THEN [ret |-> <<>>, err |-> CE("Environment variable cannot be empty")]
    ELSE [ret |-> Strip(e[key]), err |-> NoError]

\* Config._get_required_env(key): the value or the error
GetRequiredEnv(e, key) ==
    IF key \notin DOMAIN e
    THEN [ret |-> <<>>, err |-> CE("Missing required environment variable")]
    ELSE IF Strip(e[key]) = <<>>
    THEN [ret |-> <<>>, err |-> CE("Environment variable cannot be empty")]
    ELSE [ret |-> Strip(e[key]), err |-> NoError]

\* Fault seeded for C12: a blank value is returned instead of the default
GetOptionalEnvBlankKept(e, key, default) ==
    IF key \notin DOMAIN e THEN default
    ELSE Strip(e[key])

\* Config._get_optional_env(key, default)
GetOptionalEnv(e, key, default) ==
    IF key \notin DOMAIN e THEN default
    ELSE IF Strip(e[key]) = <<>> THEN default
    ELSE Strip(e[key])

\* bytes.hex(): two lowercase hexadecimal digits for each byte
HexDigits == <<"0","1","2","3","4","5","6","7","8","9","a","b","c","d","e","f">>
Hex(bytes) ==
    [i \in 1..(2 * Len(bytes)) |->
        LET b == bytes[(i + 1) \div 2]
        IN  IF i % 2 = 1 THEN HexDigits[(b \div 16) + 1] ELSE HexDigits[(b % 16) + 1]]

\* what secrets.token_bytes(n) may return: n random bytes (here n equal ones)
RandomBytes(n) == {[i \in 1..n |-> b] : b \in {0, 167, 255}}

\* Config._generate_secret_key(), wrapped by lru_cache(maxsize=1): the cache
\* is the function's, shared by all instances, and its key is the instance.
\* A call answers from the entry when the entry is this instance's; else it
\* draws token_hex(32) and the new entry takes the place of the old one.
GenerateSecretKey(cache, instance, bytes) ==
    LET hit == cache # <<>> /\ cache[1].self = instance
        key == IF hit THEN cache[1].key ELSE Hex(bytes)
    IN  [ret |-> key, hit |-> hit, cache |-> <<[self |-> instance, key |-> key]>>]

\* Fault seeded for C15: api_key_set carries the key instead of bool(key)
ConfigToDictKeyShown(self, include_sensitive) ==
    LET open == [max_file_size |-> self["max_file_size"],
                 max_file_size_bytes |-> self["max_file_size_bytes"],
                 supported_file_types |-> self["supported_file_types"],
                 api_key_set |-> self["anthropic_api_key"]]
    IN  IF include_sensitive
        THEN [k \in DOMAIN open \cup {"anthropic_api_key", "flask_secret_key"} |->
                IF k \in DOMAIN open THEN open[k] ELSE self[k]]
        ELSE open

\* Config.to_dict(include_sensitive)
ConfigToDictResult(self, include_sensitive) ==
    LET open == [max_file_size |-> self["max_file_size"],
                 max_file_size_bytes |-> self["max_file_size_bytes"],
                 supported_file_types |-> self["supported_file_types"],
                 api_key_set |-> Bool(Truthy(self["anthropic_api_key"]))]
    IN  IF include_sensitive
        THEN [k \in DOMAIN open \cup {"anthropic_api_key", "flask_secret_key"} |->
                IF k \in DOMAIN open THEN open[k] ELSE self[k]]
        ELSE open

\* Fault seeded for C18: validate() tests the supported types first
ConfigValidateTypesFirst(self) ==
    IF ~StartsWith(self["supported_file_types"].v, <<".">>)
    THEN CE("SUPPORTED_FILE_TYPES must start with '.'")
    ELSE IF ~StartsWith(self["anthropic_api_key"].v, <<"s", "k", "-">>)
    THEN CE("ANTHROPIC_API_KEY must start with 'sk-'")
    ELSE IF ~IsValidFileSize(self["max_file_size"].v)
    THEN CE("Invalid MAX_FILE_SIZE format")
    ELSE NoError

\* Config.validate(): the error of the first failing check, or NoError
ConfigValidate(self) ==
    IF ~StartsWith(self["anthropic_api_key"].v, <<"s", "k", "-">>)
    THEN CE("ANTHROPIC_API_KEY must start with 'sk-'")
    ELSE IF ~IsValidFileSize(self["max_file_size"].v)
    THEN CE("Invalid MAX_FILE_SIZE format")
    ELSE IF ~StartsWith(self["supported_file_types"].v, <<".">>)
    THEN CE("SUPPORTED_FILE_TYPES must start with '.'")
    ELSE NoError

\* load_dotenv(): the variables of the .env file that the environment does
\* not set yet are added to it
MergeDotenv(e, file) ==
    [k \in DOMAIN e \cup DOMAIN file |-> IF k \in DOMAIN e THEN e[k] ELSE file[k]]

\* self.logger.<level>(f"..."): the level, the text of the f-string with its
\* fields unfilled, and the values that fill the fields
LogRecord(level, text, args) == [level |-> level, text |-> text, args |-> args]

\* the name of an environment variable, written into a record
EnvName(key) == [t |-> "env name", v |-> key]

\* what _load_dotenv_if_available() logs
DotenvLog(d) ==
    IF ~d.module
    THEN <<LogRecord("DEBUG", "python-dotenv not installed, using system environment variables only", <<>>)>>
    ELSE IF DOMAIN d.file # {}
    THEN <<LogRecord("INFO", "Loaded configuration from .env file", <<>>)>>
    ELSE <<LogRecord("DEBUG", "No .env file found, using system environment variables only", <<>>)>>

\* what _get_required_env(key) logs: nothing when it raises
RequiredEnvLog(e, key) ==
    IF GetRequiredEnv(e, key).err # NoError THEN <<>>
    ELSE <<LogRecord("DEBUG", "Loaded required environment variable: {key}", <<EnvName(key)>>)>>

\* what _get_optional_env(key, default) logs: the default is written into
\* the record on both branches that return it
OptionalEnvLog(e, key, default) ==
    IF key \notin DOMAIN e
    THEN <<LogRecord("DEBUG", "Using default for {key}: {default}", <<EnvName(key), Str(default)>>)>>
    ELSE IF Strip(e[key]) = <<>>
    THEN <<LogRecord("DEBUG", "Empty value for {key}, using default: {default}",
                     <<EnvName(key), Str(default)>>)>>
    ELSE <<LogRecord("DEBUG", "Loaded optional environment variable: {key}", <<EnvName(key)>>)>>

\* what _generate_secret_key() logs: the body runs on a cache miss only
GenerateSecretLog(hit) ==
    IF hit THEN <<>> ELSE <<LogRecord("INFO", "Generated new Flask secret key", <<>>)>>

\* what _parse_file_size_to_bytes(size_str) logs: nothing when it raises
ParseLog(size_str) ==
    LET r == ParseFileSizeToBytes(size_str)
    IN  IF r.err # NoError THEN <<>>
        ELSE <<LogRecord("DEBUG", "Parsed {size_str} to {size_bytes} bytes",
                         <<Str(size_str), BigInt(r.ret)>>)>>

\* what validate() logs
ValidateLog(self) ==
    <<LogRecord("DEBUG", "Validating configuration", <<>>)>>
    \o (IF ConfigValidate(self) # NoError THEN <<>>
        ELSE <<LogRecord("DEBUG", "Configuration validation passed", <<>>)>>)

(* Inputs *)

Unset == <<"<unset>">>

MkEnv(choice) == [k \in {n \in DOMAIN choice : choice[n] # Unset} |-> choice[k]]

Environments ==
    {MkEnv(c) : c \in
        [ANTHROPIC_API_KEY : {Unset, <<>>, <<" ">>, <<"s", "k", "-", "a">>,
                              <<" ", "s", "k", "-", "a", "\n">>, <<"a", "k", "-", "a">>},
         FLASK_SECRET_KEY : {Unset, <<" ">>, <<"s", "3">>},
         MAX_FILE_SIZE : {Unset, <<>>, <<" ", "2", "k", "b">>, <<"1", ".", "5", "T", "B">>,
                          <<"b", "i", "g">>},
         SUPPORTED_FILE_TYPES : {Unset, <<".", "t", "x", "t", " ">>, <<"p", "d", "f">>}]}

\* Config(load_dotenv=False); or True with python-dotenv missing, with no
\* .env file, or with a .env file
DotenvCases ==
    { [load |-> FALSE, module |-> TRUE, file |-> Empty],
      [load |-> TRUE, module |-> FALSE, file |-> Empty],
      [load |-> TRUE, module |-> TRUE, file |-> Empty],
      [load |-> TRUE, module |-> TRUE,
       file |-> [ANTHROPIC_API_KEY |-> <<"s", "k", "-", "f">>,
                 MAX_FILE_SIZE |-> <<"1", "K", "B">>]] }

CIdle ==
    /\ env = Empty
    /\ dotenv = [load |-> FALSE, module |-> TRUE, file |-> Empty]
    /\ config = NoObject
    /\ cPc = "idle"
    /\ cErr = NoError
    /\ cOp = NoOp
    /\ cWrites = 0
    /\ secretCache = <<>>
    /\ draws = 0
    /\ cSteps = <<>>
    /\ generated = <<>>
    /\ cLog = <<>>

(* Config.__init__, statement by statement.  Each assignment to self goes  *)
(* through __setattr__; an exception ends the call, and the caller gets    *)
(* the exception and no instance.                                          *)

LoadFail(err) ==
    /\ config' = NoObject
    /\ cErr' = err
    /\ cPc' = "failed"

\* self.<name> = value, then on to statement `next`
LoadAssign(name, value, next) ==
    LET r == ConfigSetAttrResult(config, name, value)
    IN  IF r.err # NoError THEN LoadFail(r.err)
        ELSE /\ config' = r.obj
             /\ cPc' = next
             /\ cErr' = NoError

\* self.logger = logging.getLogger(__name__)
LoadLogger ==
    /\ cPc = "logger"
    /\ LET r == ConfigSetAttrResult(Empty, "logger", Logger)
       IN  IF r.err # NoError THEN LoadFail(r.err)
           ELSE config' = r.obj /\ cPc' = "dotenv" /\ cErr' = NoError
    /\ cLog' = Append(cLog, LogRecord("INFO", "Loading configuration from environment variables",
                                      <<>>))
    /\ UNCHANGED cSteps
    /\ UNCHANGED <<env, dotenv, cOp, cWrites, secretCache, draws, generated,
                   pvars, avars, svars>>

\* if load_dotenv: self._load_dotenv_if_available()
LoadDotenv ==
    /\ cPc = "dotenv"
    /\ env' = IF dotenv.load /\ dotenv.module /\ DOMAIN dotenv.file # {}
              THEN MergeDotenv(env, dotenv.file) ELSE env
    /\ cPc' = "anthropic_api_key"
    /\ cSteps' = IF dotenv.load THEN Append(cSteps, "load_dotenv") ELSE cSteps
    /\ cLog' = IF dotenv.load THEN cLog \o DotenvLog(dotenv) ELSE cLog
    /\ UNCHANGED <<dotenv, config, cErr, cOp, cWrites, secretCache, draws, generated,
                   pvars, avars, svars>>

\* self.anthropic_api_key = self._get_required_env('ANTHROPIC_API_KEY')
LoadApiKey ==
    /\ cPc = "anthropic_api_key"
    /\ LET r == GetRequiredEnv(env, "ANTHROPIC_API_KEY")
       IN  IF r.err # NoError THEN LoadFail(r.err)
           ELSE LoadAssign("anthropic_api_key", Str(r.ret), "flask_secret_key")
    /\ cSteps' = Append(cSteps, "required:ANTHROPIC_API_KEY")
    /\ cLog' = cLog \o RequiredEnvLog(env, "ANTHROPIC_API_KEY")
    /\ UNCHANGED <<env, dotenv, cOp, cWrites, secretCache, draws, generated,
                   pvars, avars, svars>>

\* self.flask_secret_key = self._get_optional_env('FLASK_SECRET_KEY',
\*                                               self._generate_secret_key())
\* The default is an argument, so the generator runs first, whatever the
\* environment holds.
LoadSecret ==
    /\ cPc = "flask_secret_key"
    /\ \E bytes \in RandomBytes(SecretBytes) :
        LET g == GenerateSecretKey(secretCache, "self", bytes)
        IN  /\ secretCache' = g.cache
            /\ draws' = IF g.hit THEN draws ELSE draws + 1
            /\ generated' = Append(generated, g.ret)
            /\ LoadAssign("flask_secret_key",
                          Str(GetOptionalEnv(env, "FLASK_SECRET_KEY", g.ret)),
                          "max_file_size")
            /\ cLog' = cLog \o GenerateSecretLog(g.hit)
                            \o OptionalEnvLog(env, "FLASK_SECRET_KEY", g.ret)
    /\ cSteps' = cSteps \o <<"generate", "optional:FLASK_SECRET_KEY">>
    /\ UNCHANGED <<env, dotenv, cOp, cWrites, pvars, avars, svars>>

\* self.max_file_size = self._get_optional_env('MAX_FILE_SIZE', '10MB')
LoadMaxFileSize ==
    /\ cPc = "max_file_size"
    /\ LoadAssign("max_file_size",
                  Str(GetOptionalEnv(env, "MAX_FILE_SIZE", DefaultMaxFileSize)),
                  "supported_file_types")
    /\ cSteps' = Append(cSteps, "optional:MAX_FILE_SIZE")
    /\ cLog' = cLog \o OptionalEnvLog(env, "MAX_FILE_SIZE", DefaultMaxFileSize)
    /\ UNCHANGED <<env, dotenv, cOp, cWrites, secretCache, draws, generated,
                   pvars, avars, svars>>

\* self.supported_file_types = self._get_optional_env('SUPPORTED_FILE_TYPES', '.pdf')
LoadSupportedFileTypes ==
    /\ cPc = "supported_file_types"
    /\ LoadAssign("supported_file_types",
                  Str(GetOptionalEnv(env, "SUPPORTED_FILE_TYPES", DefaultSupportedFileTypes)),
                  "max_file_size_bytes")
    /\ cSteps' = Append(cSteps, "optional:SUPPORTED_FILE_TYPES")
    /\ cLog' = cLog \o OptionalEnvLog(env, "SUPPORTED_FILE_TYPES", DefaultSupportedFileTypes)
    /\ UNCHANGED <<env, dotenv, cOp, cWrites, secretCache, draws, generated,
                   pvars, avars, svars>>

\* self.max_file_size_bytes = self._parse_file_size_to_bytes(self.max_file_size)
LoadParse ==
    /\ cPc = "max_file_size_bytes"
    /\ LET r == ParseFileSizeToBytes(config["max_file_size"].v)
       IN  IF r.err # NoError THEN LoadFail(r.err)
           ELSE LoadAssign("max_file_size_bytes", BigInt(r.ret), "validate")
    /\ cSteps' = Append(cSteps, "parse")
    /\ cLog' = cLog \o ParseLog(config["max_file_size"].v)
    /\ UNCHANGED <<env, dotenv, cOp, cWrites, secretCache, draws, generated,
                   pvars, avars, svars>>

\* self.validate()
LoadValidate ==
    /\ cPc = "validate"
    /\ LET err == ConfigValidate(config)
       IN  IF err # NoError THEN LoadFail(err)
           ELSE cPc' = "freeze" /\ UNCHANGED <<config, cErr>>
    /\ cSteps' = Append(cSteps, "validate")
    /\ cLog' = cLog \o ValidateLog(config)
    /\ UNCHANGED <<env, dotenv, cOp, cWrites, secretCache, draws, generated,
                   pvars, avars, svars>>

\* self.logger.info(f"Configuration loaded successfully. ..."), then
\* self._frozen = True, and __init__ returns
LoadFreeze ==
    /\ cPc = "freeze"
    /\ LoadAssign("_frozen", Bool(TRUE), "done")
    /\ cSteps' = Append(cSteps, "freeze")
    /\ cLog' = Append(cLog, LogRecord("INFO",
                                      "Configuration loaded successfully. Max upload: {self.max_file_size}",
                                      <<config["max_file_size"]>>))
    /\ UNCHANGED <<env, dotenv, cOp, cWrites, secretCache, draws, generated,
                   pvars, avars, svars>>

ConfigAttributes ==
    {"anthropic_api_key", "flask_secret_key", "max_file_size", "max_file_size_bytes",
     "supported_file_types", "_frozen", "new_attribute"}

\* config.<name> = value, by the holder of a loaded Config
ConfigSetAttr ==
    /\ cPc = "done"
    /\ cWrites < MaxWrites
    /\ \E name \in ConfigAttributes, value \in {Str(<<"z">>), Bool(FALSE)} :
        LET r == ConfigSetAttrResult(config, name, value)
        IN  /\ config' = r.obj
            /\ cErr' = r.err
            /\ cOp' = [name |-> "setattr", attr |-> name, value |-> value,
                       before |-> config]
    /\ cWrites' = cWrites + 1
    /\ UNCHANGED <<env, dotenv, cPc, secretCache, draws, cSteps, generated, cLog,
                   pvars, avars, svars>>

\* config.to_dict(include_sensitive), by the holder of a loaded Config
ConfigToDict ==
    /\ cPc = "done"
    /\ \E b \in BOOLEAN :
        cOp' = [name |-> "to_dict", include_sensitive |-> b,
                ret |-> ConfigToDictResult(config, b)]
    /\ cErr' = NoError
    /\ UNCHANGED <<env, dotenv, config, cPc, cWrites, secretCache, draws, cSteps,
                   generated, cLog, pvars, avars, svars>>

MaxSecretCalls == 2

\* config._generate_secret_key() once more, on the returned instance
GenerateSecretAgain ==
    /\ cPc = "done"
    /\ Len(generated) < MaxSecretCalls
    /\ \E bytes \in RandomBytes(SecretBytes) :
        LET g == GenerateSecretKey(secretCache, "self", bytes)
        IN  /\ secretCache' = g.cache
            /\ draws' = IF g.hit THEN draws ELSE draws + 1
            /\ generated' = Append(generated, g.ret)
            /\ cOp' = [name |-> "generate", ret |-> g.ret]
            /\ cLog' = cLog \o GenerateSecretLog(g.hit)
    /\ cErr' = NoError
    /\ UNCHANGED <<env, dotenv, config, cPc, cWrites, cSteps, pvars, avars, svars>>

\* Another Config of the same process is loaded, or asked for its secret,
\* before this load begins or after it has returned (__init__ itself runs
\* to its end without giving way): its _generate_secret_key() call goes
\* through the same lru_cache.
OtherInstanceGenerates ==
    /\ cPc \in {"logger", "done"}
    /\ \E bytes \in RandomBytes(SecretBytes) :
        secretCache' = GenerateSecretKey(secretCache, "other", bytes).cache
    /\ UNCHANGED <<env, dotenv, config, cPc, cErr, cOp, cWrites, draws, cSteps,
                   generated, cLog, pvars, avars, svars>>

-----------------------------------------------------------------------------
(* Specifications *)

AIdle ==
    /\ aIn = Empty
    /\ analysis = NoObject
    /\ aErr = NoError
    /\ aOp = Idle
    /\ aWrites = 0
    /\ aHeld = {}
    /\ aFinal = NoObject

SIdle ==
    /\ sizeStr = <<>>
    /\ sizeOut = [op |-> "idle", ret |-> FALSE, err |-> NoError, n |-> 0]

\* One RFPProposal: built from any input, then written to by its holder.
InitProposal == pIn \in ProposalInputs /\ proposal = NoObject /\ pErr = NoError
                /\ pOp = NoOp /\ pWrites = 0 /\ AIdle /\ SIdle /\ CIdle
NextProposal ==
    \/ ProposalConstruct \/ ProposalFromDict \/ ProposalSetAttr
    \/ ProposalToDict \/ ProposalFromDictOfToDict
SpecProposal == InitProposal /\ [][NextProposal]_vars

-----------------------------------------------------------------------------
(* Properties of RFPProposal *)

\* The argument a caller gave for field f; an argument left out is None.
PArg(f) == IF f \in DOMAIN pIn THEN pIn[f] ELSE None

NonEmptyString(x) == x.t \in {"str", "xstr"} /\ (IF x.t = "str" THEN x.v # <<>> ELSE x.v >= 1)
HasDotDotSlash(s) ==
    \E i \in 1..Len(s) : i + 2 <= Len(s) /\ s[i] = "." /\ s[i + 1] = "." /\ s[i + 2] = "/"
HasBackslash(s) == \E i \in 1..Len(s) : s[i] = "\\"
HasSlash(s) == \E i \in 1..Len(s) : s[i] = "/"
EndsDotPdf(s) ==
    LET n == Len(s)
    IN  /\ n >= 4
        /\ s[n - 3] = "."
        /\ s[n - 2] \in {"p", "P"}
        /\ s[n - 1] \in {"d", "D"}
        /\ s[n] \in {"f", "F"}
ScoreAbsentOrInRange(x) == x = None \/ (x.t = "num" /\ 0 <= x.v /\ x.v <= 10000)

Constructed == pOp.name = "construct"
Finalized == proposal # NoObject

TraversalError == MVE("Invalid filename format - path traversal not allowed")

\* C1: every attempt to assign a field of a finalized RFPProposal fails with
\* an immutability error and leaves the record as it was before the attempt.
C1_AssignmentRejected ==
    pOp.name = "setattr" =>
        /\ pErr # NoError
        /\ proposal = pOp.before

\* C5: RFPProposal(...) returns a record exactly when id, filename and
\* content are non-empty strings, filename holds neither '../' nor a
\* backslash and ends in '.pdf' in any letter case, content has at most
\* 10,000,000 characters and analysis_score is absent or a number in
\* [0,100]; otherwise it raises and the caller holds no record.
C5_ConstructionIff ==
    Constructed =>
        /\ Finalized <=>
            /\ NonEmptyString(PArg("id"))
            /\ NonEmptyString(PArg("filename"))
            /\ NonEmptyString(PArg("content"))
            /\ ~HasDotDotSlash(PArg("filename").v)
            /\ ~HasBackslash(PArg("filename").v)
            /\ EndsDotPdf(PArg("filename").v)
            /\ PArg("content").v <= 10000000
            /\ ScoreAbsentOrInRange(PArg("analysis_score"))
        /\ Finalized <=> pErr = NoError
        /\ ~Finalized => pErr.type = "ModelValidationError"
        /\ Finalized => \A f \in DOMAIN pIn : proposal[f] = pIn[f]

\* a record holding exactly 10,000,000 characters of content was accepted
C5_Witness ==
    /\ Constructed
    /\ Finalized
    /\ proposal["content"] = XStr(10000000)
    /\ proposal["analysis_score"] = Num(10000)

\* The checks of C6 in their order, each with the message of its error, for
\* the arguments in pIn.
C6Checks ==
    LET id == PArg("id")
        fn == PArg("filename")
        ct == PArg("content")
        sc == PArg("analysis_score")
        empty(x) == x = None \/ x = Str(<<>>) \/ x = XStr(0)
        text(x) == x.t \in {"str", "xstr"}
    IN  << [bad |-> empty(id), msg |-> "Missing required field: id"],
           [bad |-> empty(fn), msg |-> "Missing required field: filename"],
           [bad |-> empty(ct), msg |-> "Missing required field: content"],
           [bad |-> ~text(id), msg |-> "Field 'id' must be a string"],
           [bad |-> ~text(fn), msg |-> "Field 'filename' must be a string"],
           [bad |-> ~text(ct), msg |-> "Field 'content' must be a string"],
           [bad |-> text(fn) /\ (HasDotDotSlash(fn.v) \/ HasBackslash(fn.v)),
            msg |-> "Invalid filename format - path traversal not allowed"],
           [bad |-> text(fn) /\ ~EndsDotPdf(fn.v), msg |-> "Only PDF files are supported"],
           [bad |-> text(ct) /\ ct.v > 10000000,
            msg |-> "Content too large - maximum 10,000,000 characters allowed"],
           [bad |-> sc # None /\ sc.t \notin {"num", "nan"},
            msg |-> "Field 'analysis_score' must be a number"],
           [bad |-> sc # None /\ (sc.t = "nan" \/ (sc.t = "num" /\ (sc.v < 0 \/ sc.v > 10000))),
            msg |-> "Analysis score must be between 0 and 100"] >>

PasswdPath ==
    <<".", ".", "/", ".", ".", "/", "e", "t", "c", "/", "p", "a", "s", "s", "w", "d">>

\* C6: when the arguments break several constraints, the error raised is
\* that of the first broken check in the order: presence of id, filename,
\* content; string type of id, filename, content; path traversal; '.pdf'
\* extension; content length; analysis_score type, then range.  With
\* filename '../../etc/passwd' it is the path-traversal error.
C6_FirstViolationWins ==
    Constructed =>
        LET broken == {i \in 1..Len(C6Checks) : C6Checks[i].bad}
        IN  /\ broken = {} <=> pErr = NoError
            /\ broken # {} =>
                 LET first == CHOOSE i \in broken : \A j \in broken : i <= j
                 IN  pErr = MVE(C6Checks[first].msg)
            /\ (PArg("filename") = Str(PasswdPath)
                  /\ NonEmptyString(PArg("id")) /\ NonEmptyString(PArg("content")))
                 => pErr = TraversalError

\* '../../etc/passwd' with content over the limit and a score out of range:
\* three checks are broken and path traversal is reported
C6_Witness ==
    /\ Constructed
    /\ PArg("filename") = Str(PasswdPath)
    /\ PArg("content") = XStr(10000001)
    /\ PArg("analysis_score") = Num(10001)
    /\ pErr = TraversalError

\* C7: construction fails with the security rejection for every filename
\* holding a path-traversal sequence or a path separator, '/' as well as
\* '\'; no finalized RFPProposal has a filename holding a path separator.
C7_NoPathSeparator ==
    pOp.name \in {"construct", "from_dict"} =>
        /\ (/\ NonEmptyString(PArg("id")) /\ NonEmptyString(PArg("content"))
            /\ PArg("filename").t = "str"
            /\ (HasSlash(PArg("filename").v) \/ HasBackslash(PArg("filename").v)))
              => pErr = TraversalError
        /\ Finalized =>
              ~(HasSlash(proposal["filename"].v) \/ HasBackslash(proposal["filename"].v))

\* C13: for a valid RFPProposal p (one that passes _validate and whose
\* created_at is a datetime) and any extra entries under keys that are no
\* fields, from_dict(p.to_dict() plus the extras) raises nothing and returns
\* a record equal to p field for field, created_at included.
C13_RoundTrip ==
    (pOp.name = "round_trip" /\ ProposalValidate(proposal) = NoError) =>
        /\ pErr = NoError
        /\ pOp.ret # NoObject
        /\ \A f \in ProposalFields : pOp.ret[f] = proposal[f]

\* a record stamped 2024-01-15T10:30:00 UTC came back equal from a map that
\* carried two unknown keys
C13_Witness ==
    /\ pOp.name = "round_trip"
    /\ DOMAIN pOp.extra = {"unknown_field", "created"}
    /\ ProposalValidate(proposal) = NoError
    /\ proposal["created_at"] =
          DateTime([date |-> "2024-01-15T10:30:00", micro |-> FALSE, utc |-> TRUE])
    /\ pOp.ret["created_at"] = proposal["created_at"]
    /\ pOp.ret["extracted_data"] = Dict(<<[k |-> "vendor", x |-> Str(<<"a">>)]>>)

-----------------------------------------------------------------------------
(* Specification of one AnalysisResult *)

PIdle ==
    /\ pIn = Empty
    /\ proposal = NoObject
    /\ pErr = NoError
    /\ pOp = Idle
    /\ pWrites = 0

InitAnalysis == aIn \in AnalysisInputs /\ analysis = NoObject /\ aErr = NoError
                /\ aOp = NoOp /\ aWrites = 0 /\ aHeld = {} /\ aFinal = NoObject
                /\ PIdle /\ SIdle /\ CIdle
NextAnalysis ==
    \/ AnalysisConstruct \/ AnalysisFromDict \/ AnalysisSetAttr
    \/ AnalysisToDict \/ AnalysisFromDictOfToDict
SpecAnalysis == InitAnalysis /\ [][NextAnalysis]_vars

\* One AnalysisResult and a caller that keeps the dicts and lists it passed
\* in or got back from to_dict, and updates them.
NextShared ==
    \/ AnalysisConstruct \/ AnalysisFromDict \/ AnalysisToDict \/ CallerUpdate
SpecShared == InitAnalysis /\ [][NextShared]_vars

-----------------------------------------------------------------------------
(* Properties of AnalysisResult *)

AArg(f) == IF f \in DOMAIN aIn THEN aIn[f] ELSE None
AnalysisBuilt == aOp.name \in {"construct", "from_dict"} /\ analysis # NoObject

\* C2: every attribute assignment on a finalized AnalysisResult (a field,
\* the frozen flag, a new name) raises the validation error and leaves all
\* fields as they were; an instance the caller holds is frozen and stays so.
C2_FrozenRejectsWrites ==
    /\ analysis # NoObject => analysis["_frozen"] = Bool(TRUE)
    /\ aOp.name = "setattr" =>
        /\ aErr = ImmutableError
        /\ analysis = aOp.before

\* an assignment of False to the frozen flag was refused
C2_Witness ==
    /\ aOp.name = "setattr"
    /\ aOp.attr = "_frozen"
    /\ aOp.value = Bool(FALSE)
    /\ aErr = ImmutableError
    /\ analysis["_frozen"] = Bool(TRUE)

\* The weight table of C4, in hundredths; 0 for a name not in it.
C4NamedWeight(name) ==
    CASE name = "price" -> 30
      [] name = "technical_approach" -> 25
      [] name = "experience" -> 20
      [] name = "timeline" -> 15
      [] name = "risk" -> 10
      [] OTHER -> 0

\* C4: without a supplied overall_score, the stored one is
\* sum(score_i * w_i) / sum(w_i) to the nearest hundredth, w_i being the
\* table weight of a named criterion and 1/N for any other, N the number of
\* criteria of the record: with den the common denominator 100 * N it is
\* within half a hundredth of num / den.  The five named criteria
\* 80/90/85/75/70 give 81.75, {custom_a: 100, custom_b: 0} gives 50.0.
C4_WeightedAggregation ==
    (AnalysisBuilt /\ AArg("overall_score") = None) =>
        LET e == aIn["criteria_scores"].v
            n == Len(e)
            w(i) == IF C4NamedWeight(e[i].k) > 0 THEN C4NamedWeight(e[i].k) * n ELSE 100
            num[i \in 0..n] == IF i = 0 THEN 0 ELSE num[i - 1] + e[i].x.v * w(i)
            den[i \in 0..n] == IF i = 0 THEN 0 ELSE den[i - 1] + w(i)
            r == analysis["overall_score"].v
        IN  /\ analysis["overall_score"].t = "num"
            /\ den[n] > 0
            /\ (2 * r - 1) * den[n] <= 2 * num[n]
            /\ 2 * num[n] <= (2 * r + 1) * den[n]
            /\ aIn["criteria_scores"] = FiveNamed => r = 8175
            /\ aIn["criteria_scores"] = TwoCustom => r = 5000

\* a named and an unnamed criterion in one record: (0.3 * 2 * 100 + 0) / 1.6
C4_Witness ==
    /\ AnalysisBuilt
    /\ AArg("overall_score") = None
    /\ aIn["criteria_scores"] =
          Dict(<<Entry("price", Num(10000)), Entry("custom_a", Num(0))>>)
    /\ analysis["overall_score"] = Num(3750)

C8ScoreOk(x) == x.t = "num" /\ 0 <= x.v /\ x.v <= 10000
C8ScoreOutside(x) == x.t = "nan" \/ (x.t = "num" /\ (x.v < 0 \/ x.v > 10000))

C9_MissingKeyIsValidationError ==
    (aOp.name = "from_dict" /\ ~({"proposal_id", "criteria_scores"} \subseteq DOMAIN aIn)
        /\ ~CreatedAtUnparsable(aIn)) =>
        /\ analysis = NoObject
        /\ aErr \in {MVE("Missing required field: proposal_id"),
                     MVE("Missing required field: criteria_scores")}

\* C14: for a valid AnalysisResult a, from_dict(a.to_dict()) raises nothing
\* and returns a record with all fields of a; its overall_score is the one a
\* holds, also where that differs from every value the weighted aggregation
\* can give for a's criteria_scores.
C14_RoundTripKeepsScore ==
    (aOp.name = "round_trip" /\ AnalysisValidate(analysis) = NoError) =>
        /\ aErr = NoError
        /\ aOp.ret # NoObject
        /\ \A f \in AnalysisFields : aOp.ret[f] = analysis[f]
        /\ aOp.ret["overall_score"] = analysis["overall_score"]

\* a record with overall_score 42.0 supplied, whose criteria aggregate to
\* another value, came back with 42.0
C14_Witness ==
    /\ aOp.name = "round_trip"
    /\ analysis = aFinal
    /\ analysis["overall_score"] = Num(4200)
    /\ analysis["criteria_scores"] = TwoCustom
    /\ Num(4200) \notin CalculateOverallScore(analysis)
    /\ aOp.ret["overall_score"] = Num(4200)
    /\ aOp.ret["created_at"] = analysis["created_at"]

\* C19: whatever the caller does (construction, from_dict, to_dict, updates
\* of the dicts and lists it passed in or got back), the criteria_scores,
\* strengths and concerns of a finalized AnalysisResult are those it was
\* finalized with, and every criteria score lies in [0, 100].
C19_ContainersFixed ==
    analysis # NoObject =>
        /\ \A f \in Containers : analysis[f] = aFinal[f]
        /\ \A i \in DOMAIN analysis["criteria_scores"].v :
              LET x == analysis["criteria_scores"].v[i].x
              IN  x.t = "num" /\ 0 <= x.v /\ x.v <= 10000

\* C20: when a record was built without overall_score, from criteria that
\* are all numbers in [0, 100], the total weight of the aggregation loop is
\* strictly positive, the stored overall_score lies between the smallest
\* and the largest criterion score, hence in [0, 100], and it is s when all
\* criteria have the score s, whatever their names.
C20_AggregationBounds ==
    (AnalysisBuilt /\ AArg("overall_score") = None) =>
        LET entries == AArg("criteria_scores").v
            scores == {entries[i].x.v : i \in DOMAIN entries}
            result == aFinal["overall_score"]
        IN  /\ entries # <<>>
            /\ WeightedTotals(entries, Len(entries)).weight > 0
            /\ result.t = "num"
            /\ \E lo \in scores : lo <= result.v
            /\ \E hi \in scores : result.v <= hi
            /\ 0 <= result.v /\ result.v <= 10000
            /\ \A s \in scores : (scores = {s} => result.v = s)

\* a named and an unnamed criterion, both at 100, aggregated to 100
C20_Witness ==
    /\ AnalysisBuilt
    /\ AArg("overall_score") = None
    /\ AArg("criteria_scores") =
          Dict(<<[k |-> "price", x |-> Num(10000)], [k |-> "custom_a", x |-> Num(10000)]>>)
    /\ aFinal["overall_score"] = Num(10000)

-----------------------------------------------------------------------------
(* Specification of the file-size functions on one string *)

InitSize == sizeStr \in SizeStrings
            /\ sizeOut = [op |-> "none", ret |-> FALSE, err |-> NoError, n |-> 0]
            /\ PIdle /\ AIdle /\ CIdle
NextSize == IsValidCall \/ ParseCall
SpecSize == InitSize /\ [][NextSize]_vars

-----------------------------------------------------------------------------
(* Properties of the file-size functions *)

C10Fold(c) ==
    CASE c = "b" -> "B" [] c = "k" -> "K" [] c = "m" -> "M" [] c = "g" -> "G"
      [] c = "t" -> "T" [] OTHER -> c

C10Units == <<<<"B">>, <<"K", "B">>, <<"M", "B">>, <<"G", "B">>, <<"T", "B">>>>

\* The ways sizeStr reads as digits (1..i), an optional "." and digits
\* (..j), then a unit in any letter case; the pattern's $ is the one of
\* Python's re: the end of the string, or a newline that ends it.
C10Parts ==
    LET s == sizeStr
        n == Len(s)
        digits(a, b) == a <= b /\ \A k \in a..b : s[k] \in Digits
        unit(j) == [k \in 1..(n - j) |-> C10Fold(s[j + k])]
        units == {C10Units[k] : k \in 1..5}
    IN  {p \in (1..n) \X (1..n) :
            /\ digits(1, p[1])
            /\ \/ p[2] = p[1]
               \/ p[2] >= p[1] + 2 /\ s[p[1] + 1] = "." /\ digits(p[1] + 2, p[2])
            /\ unit(p[2]) \in units \cup {u \o <<"\n">> : u \in units}}

\* limbs * m + c, in base 1024
RECURSIVE C10TimesPlus(_, _, _)
C10TimesPlus(limbs, m, c) ==
    IF limbs = <<>> THEN ToLimbs(c)
    ELSE LET t == limbs[Len(limbs)] * m + c
         IN  Append(C10TimesPlus(SubSeq(limbs, 1, Len(limbs) - 1), m, t \div 1024),
                    t % 1024)

-----------------------------------------------------------------------------
(* Specification of one Config load *)

InitConfig ==
    /\ env \in Environments
    /\ dotenv \in DotenvCases
    /\ config = NoObject
    /\ cPc = "logger"
    /\ cErr = NoError
    /\ cOp = NoOp
    /\ cWrites = 0
    /\ secretCache = <<>>
    /\ draws = 0
    /\ cSteps = <<>>
    /\ generated = <<>>
    /\ cLog = <<>>
    /\ PIdle /\ AIdle /\ SIdle
NextConfig ==
    \/ LoadLogger \/ LoadDotenv \/ LoadApiKey \/ LoadSecret \/ LoadMaxFileSize
    \/ LoadSupportedFileTypes \/ LoadParse \/ LoadValidate \/ LoadFreeze
    \/ ConfigSetAttr \/ ConfigToDict
SpecConfig == InitConfig /\ [][NextConfig]_vars

\* One Config load in a process that holds other Config instances: the
\* load, further calls of the secret generator on the returned instance,
\* and generator calls on the other instances.
NextSecret ==
    \/ LoadLogger \/ LoadDotenv \/ LoadApiKey \/ LoadSecret \/ LoadMaxFileSize
    \/ LoadSupportedFileTypes \/ LoadParse \/ LoadValidate \/ LoadFreeze
    \/ GenerateSecretAgain \/ OtherInstanceGenerates
SpecSecret == InitConfig /\ [][NextSecret]_vars

(* Properties of Config *)

\* The attributes __init__ has assigned when statement pc is next.
C3Assigned(pc) ==
    CASE pc = "logger" -> {}
      [] pc \in {"dotenv", "anthropic_api_key"} -> {"logger"}
      [] pc = "flask_secret_key" -> {"logger", "anthropic_api_key"}
      [] pc = "max_file_size" -> {"logger", "anthropic_api_key", "flask_secret_key"}
      [] pc = "supported_file_types" ->
            {"logger", "anthropic_api_key", "flask_secret_key", "max_file_size"}
      [] pc = "max_file_size_bytes" ->
            {"logger", "anthropic_api_key", "flask_secret_key", "max_file_size",
             "supported_file_types"}
      [] pc \in {"validate", "freeze"} ->
            {"logger", "anthropic_api_key", "flask_secret_key", "max_file_size",
             "supported_file_types", "max_file_size_bytes"}
      [] pc = "done" ->
            {"logger", "anthropic_api_key", "flask_secret_key", "max_file_size",
             "supported_file_types", "max_file_size_bytes", "_frozen"}
      [] OTHER -> {}

\* C3: on a Config a load returned, every attribute assignment (a field,
\* the frozen flag, a new name) raises the ConfigError and leaves all fields
\* as they were; during the load, before the freeze, the assignments of
\* __init__ succeed: every statement reached has stored the attributes
\* before it, the load fails only with an error of reading, parsing or
\* validating the environment, and a returned Config is frozen.
C3_FrozenAfterLoad ==
    /\ cPc \notin {"idle", "logger", "failed"} => DOMAIN config = C3Assigned(cPc)
    /\ cPc = "failed" => cErr # FrozenError
    /\ cPc = "done" => config["_frozen"] = Bool(TRUE)
    /\ cOp.name = "setattr" =>
        /\ cErr = FrozenError
        /\ config = cOp.before

\* an assignment to max_file_size_bytes of a loaded Config was refused
C3_Witness ==
    /\ cPc = "done"
    /\ cOp.name = "setattr"
    /\ cOp.attr = "max_file_size_bytes"
    /\ cErr = FrozenError
    /\ config["max_file_size_bytes"] = BigInt(<<1, 512, 0, 0, 0>>)

\* __init__ has made the call named by label
Called(label) == \E i \in DOMAIN cSteps : cSteps[i] = label

OptionalReads ==
    {"generate", "optional:FLASK_SECRET_KEY", "optional:MAX_FILE_SIZE",
     "optional:SUPPORTED_FILE_TYPES"}

\* empty, or nothing but whitespace
Blank(s) == \A i \in DOMAIN s : s[i] \in {" ", "\t", "\n", "\r"}

\* C11: once the load has read ANTHROPIC_API_KEY, an environment without the
\* variable has made it fail with the missing-variable error and one whose
\* value is empty or whitespace-only with the distinct empty-value error; in
\* both cases no Config exists, no optional variable was read before the
\* error and the load went no further.
C11_RequiredKeyErrors ==
    LET key == "ANTHROPIC_API_KEY"
        missing == CE("Missing required environment variable")
        empty == CE("Environment variable cannot be empty")
        stopped == /\ cPc = "failed"
                   /\ config = NoObject
                   /\ \A i \in DOMAIN cSteps : cSteps[i] \notin OptionalReads
                   /\ cSteps[Len(cSteps)] = "required:ANTHROPIC_API_KEY"
                   /\ draws = 0
    IN  /\ missing # empty
        /\ (Called("required:ANTHROPIC_API_KEY") /\ key \notin DOMAIN env) =>
              (stopped /\ cErr = missing)
        /\ (Called("required:ANTHROPIC_API_KEY") /\ key \in DOMAIN env
                /\ Blank(env[key])) =>
              (stopped /\ cErr = empty)

\* a load with the .env import on failed on a whitespace-only API key
C11_Witness ==
    /\ cPc = "failed"
    /\ dotenv.load
    /\ "ANTHROPIC_API_KEY" \in DOMAIN env
    /\ env["ANTHROPIC_API_KEY"] = <<" ">>
    /\ cErr = CE("Environment variable cannot be empty")
    /\ cSteps = <<"load_dotenv", "required:ANTHROPIC_API_KEY">>

\* s without its leading and trailing whitespace
Trimmed(s) ==
    IF Blank(s) THEN <<>>
    ELSE LET solid == {i \in DOMAIN s : s[i] \notin {" ", "\t", "\n", "\r"}}
             first == CHOOSE i \in solid : \A j \in solid : i <= j
             last == CHOOSE i \in solid : \A j \in solid : j <= i
         IN  SubSeq(s, first, last)

Supplied(key) == key \in DOMAIN env /\ ~Blank(env[key])

\* the trimmed value of the variable, or the default when absent or blank
Effective(key, default) == IF Supplied(key) THEN Trimmed(env[key]) ELSE default

IsHex64(s) ==
    /\ Len(s) = 64
    /\ \A i \in 1..64 : s[i] \in {"0","1","2","3","4","5","6","7","8","9",
                                   "a","b","c","d","e","f"}

OtherApiKeys == {<<"s", "k", "-", "a">>, <<"s", "k", "-", "f">>, <<"s", "k", "-", "z", "z">>}
OtherSecrets == {<<"s", "3">>, <<"t", "0", "p">>} \cup {Hex(b) : b \in RandomBytes(SecretBytes)}

\* C15: the map to_dict() returns without include_sensitive holds exactly
\* max_file_size, max_file_size_bytes, supported_file_types and api_key_set,
\* none of them the API key or the session secret, and it is the map every
\* Config gives that differs from this one only in the API key and the
\* session secret.  to_dict(include_sensitive=True) returns the same four
\* entries and the two secret values besides.
C15_RedactedMapHidesSecrets ==
    cOp.name = "to_dict" =>
        LET redacted == ConfigToDictResult(config, FALSE)
            open == {"max_file_size", "max_file_size_bytes", "supported_file_types",
                     "api_key_set"}
        IN  /\ DOMAIN redacted = open
            /\ \A k \in open : redacted[k] \notin {config["anthropic_api_key"],
                                                    config["flask_secret_key"]}
            /\ redacted["api_key_set"] = Bool(TRUE)
            /\ \A key \in OtherApiKeys, secret \in OtherSecrets :
                  ConfigToDictResult([config EXCEPT !["anthropic_api_key"] = Str(key),
                                                    !["flask_secret_key"] = Str(secret)],
                                     FALSE) = redacted
            /\ ~cOp.include_sensitive => cOp.ret = redacted
            /\ cOp.include_sensitive =>
                /\ DOMAIN cOp.ret = open \cup {"anthropic_api_key", "flask_secret_key"}
                /\ \A k \in open : cOp.ret[k] = redacted[k]
                /\ cOp.ret["anthropic_api_key"] = config["anthropic_api_key"]
                /\ cOp.ret["flask_secret_key"] = config["flask_secret_key"]

\* the redacted map of a Config with a generated secret was taken
C15_Witness ==
    /\ cOp.name = "to_dict"
    /\ ~cOp.include_sensitive
    /\ config["anthropic_api_key"] = Str(<<"s", "k", "-", "f">>)
    /\ IsHex64(config["flask_secret_key"].v)
    /\ cOp.ret = [max_file_size |-> Str(<<"1", "K", "B">>),
                  max_file_size_bytes |-> BigInt(<<1, 0>>),
                  supported_file_types |-> Str(<<".", "p", "d", "f">>),
                  api_key_set |-> Bool(TRUE)]

\* C16: on a load where FLASK_SECRET_KEY is supplied (present and not
\* blank), reading the session secret has not invoked the secret generator
\* and no random bytes were drawn.
C16_NoGenerationWhenSupplied ==
    (Called("optional:FLASK_SECRET_KEY") /\ Supplied("FLASK_SECRET_KEY")) =>
        /\ ~Called("generate")
        /\ generated = <<>>
        /\ draws = 0

\* C17: every call of the secret generator on this Config has returned what
\* its first call returned, which is the stored session secret when none
\* was supplied, whatever other Config instances of the process have done
\* in between.
C17_GeneratorStable ==
    /\ \A i \in DOMAIN generated : generated[i] = generated[1]
    /\ (cPc = "done" /\ ~Supplied("FLASK_SECRET_KEY")) =>
          config["flask_secret_key"] = Str(generated[1])

\* The steps of a load in their order; the .env import is there when asked
\* for.
LoadOrder ==
    (IF dotenv.load THEN <<"load_dotenv">> ELSE <<>>)
    \o <<"required:ANTHROPIC_API_KEY", "optional:FLASK_SECRET_KEY",
         "optional:MAX_FILE_SIZE", "optional:SUPPORTED_FILE_TYPES",
         "parse", "validate", "freeze">>

\* The checks of a load in the order of its steps: the step, whether it
\* fails on this environment, and the error it then raises.
LoadChecks ==
    LET apiKey == Effective("ANTHROPIC_API_KEY", <<>>)
        maxSize == Effective("MAX_FILE_SIZE", <<"1", "0", "M", "B">>)
        types == Effective("SUPPORTED_FILE_TYPES", <<".", "p", "d", "f">>)
    IN  << [step |-> "required:ANTHROPIC_API_KEY",
            fails |-> "ANTHROPIC_API_KEY" \notin DOMAIN env,
            err |-> CE("Missing required environment variable")],
           [step |-> "required:ANTHROPIC_API_KEY",
            fails |-> apiKey = <<>>,
            err |-> CE("Environment variable cannot be empty")],
           [step |-> "parse",
            fails |-> ~IsValidFileSize(maxSize),
            err |-> CE("Invalid file size format")],
           [step |-> "validate",
            fails |-> ~(Len(apiKey) >= 3 /\ SubSeq(apiKey, 1, 3) = <<"s", "k", "-">>),
            err |-> CE("ANTHROPIC_API_KEY must start with 'sk-'")],
           [step |-> "validate",
            fails |-> ~IsValidFileSize(maxSize),
            err |-> CE("Invalid MAX_FILE_SIZE format")],
           [step |-> "validate",
            fails |-> ~(Len(types) >= 1 /\ types[1] = "."),
            err |-> CE("SUPPORTED_FILE_TYPES must start with '.'")] >>

StepsTaken == SelectSeq(cSteps, LAMBDA x : x # "generate")

\* C18: the steps a load has taken are a prefix of the fixed order (.env
\* import, API key read, optional reads, parse, validate, freeze); a load
\* that failed stopped at the step of the first failing check in that order
\* and reports that check's error, so an unparsable MAX_FILE_SIZE together
\* with an API key without 'sk-' gives the file-size error; the freeze step
\* is taken only when no check fails.
C18_StepOrder ==
    LET failing == {i \in DOMAIN LoadChecks : LoadChecks[i].fails}
        first == CHOOSE i \in failing : \A j \in failing : i <= j
    IN  /\ Len(StepsTaken) <= Len(LoadOrder)
        /\ StepsTaken = SubSeq(LoadOrder, 1, Len(StepsTaken))
        /\ cPc = "failed" =>
            /\ failing # {}
            /\ cErr = LoadChecks[first].err
            /\ StepsTaken[Len(StepsTaken)] = LoadChecks[first].step
        /\ Called("freeze") => (failing = {} /\ Called("validate"))
        /\ cPc = "done" => StepsTaken = LoadOrder
        /\ (/\ cPc = "failed"
            /\ Effective("MAX_FILE_SIZE", <<>>) = <<"b", "i", "g">>
            /\ Effective("ANTHROPIC_API_KEY", <<>>) = <<"a", "k", "-", "a">>) =>
              cErr = CE("Invalid file size format")

\* a load with an unparsable MAX_FILE_SIZE, an API key without 'sk-' and
\* supported types without '.' stopped at the parse step
C18_Witness ==
    /\ cPc = "failed"
    /\ Effective("MAX_FILE_SIZE", <<>>) = <<"b", "i", "g">>
    /\ Effective("ANTHROPIC_API_KEY", <<>>) = <<"a", "k", "-", "a">>
    /\ Effective("SUPPORTED_FILE_TYPES", <<>>) = <<"p", "d", "f">>
    /\ cErr = CE("Invalid file size format")
    /\ StepsTaken[Len(StepsTaken)] = "parse"
    /\ ~Called("validate")

\* some record handed to the logger carries the string s in one of the
\* values written into its message
Logged(s) ==
    \E i \in DOMAIN cLog : \E j \in DOMAIN cLog[i].args :
        cLog[i].args[j].t = "str" /\ Contains(cLog[i].args[j].v, s)

\* C21: no record the load has handed to its logger, at any level, carries
\* the value of the API key, the value of a supplied session secret or a
\* value the secret generator has returned; the records carry the names of
\* those variables only.
C21_NoSecretInLog ==
    /\ Supplied("ANTHROPIC_API_KEY") => ~Logged(Trimmed(env["ANTHROPIC_API_KEY"]))
    /\ Supplied("FLASK_SECRET_KEY") => ~Logged(Trimmed(env["FLASK_SECRET_KEY"]))
    /\ \A g \in DOMAIN generated : ~Logged(generated[g])

-----------------------------------------------------------------------------
(* The whole model: a run exercises one of the components. *)

Init == InitProposal \/ InitAnalysis \/ InitSize \/ InitConfig
Next == NextProposal \/ NextAnalysis \/ NextShared \/ NextSize \/ NextConfig \/ NextSecret
Spec == Init /\ [][Next]_vars

====
